---------------------------- MODULE Spec2Model ----------------------------
(***************************************************************************)
(* Cosmic Symbiosis: the gesture -> state -> modality pipeline.            *)
(*                                                                         *)
(*   App (src/unnamed/part_001)        the React component holding the     *)
(*                                     state, the logic loop and handlers  *)
(*   GestureHandler (Visuals.tsx:700+) predictWebcam and recognizeGesture  *)
(*   AudioEngine (audioService.ts)     init and setResonance               *)
(*                                                                         *)
(* Numbers.  The program computes in IEEE doubles.  The model computes in  *)
(* fixed point:                                                            *)
(*   - the drive scalars (resonance, awakenProgress, tideLevel, the level  *)
(*     handed to the audio engine) are integers counting 1/Scale;          *)
(*   - landmark coordinates are integers counting 1/100 of the normalised  *)
(*     image, so the pinch threshold 0.08 is 8;                            *)
(*   - handPos counts 1/200, so that the mean of two landmark coordinates  *)
(*     is exact.                                                           *)
(* A product by 0.05 or 0.2 is rounded to the nearest unit (RoundDiv).     *)
(*                                                                         *)
(* Atomicity.  A handler and the React render that commits its state       *)
(* updates are one step: every closure the next handler runs in has been   *)
(* re-created from the committed state (the logic-loop effect lists every  *)
(* state it reads as a dependency, part_001:89).                           *)
(***************************************************************************)
EXTENDS Integers, Sequences, FiniteSets, TLC

VARIABLES
    appState,        \* part_001:12
    currentGesture,  \* part_001:13
    handPos,         \* part_001:14   [x, y] in 1/200
    landmarks,       \* part_001:15   the last landmark list, <<>> when none
    resonance,       \* part_001:16   in 1/Scale
    awakenProgress,  \* part_001:17   in 1/Scale
    cameraEnabled,   \* part_001:19
    showIntro,       \* part_001:20
    tideLevel,       \* part_001:25   in 1/Scale
    audio,           \* audioService.ts:3-19, the AudioEngine singleton
    gh               \* Visuals.tsx:709-783, the GestureHandler instance

vars == <<appState, currentGesture, handPos, landmarks, resonance,
          awakenProgress, cameraEnabled, showIntro, tideLevel, audio, gh>>

---------------------------------------------------------------------------
(* Bounds and units *)

\* Units per 0.005: the smallest step of the program (the awakening step).
Resolution == 10
\* The palm centres tried are the PalmSteps + 1 evenly spaced positions from
\* 0 to 1 along the top and the bottom edge of the frame.
PalmSteps == 1

\* Fingertip offsets tried on either side of the PIP joint, in steps of 0.1.
TipSpread == 1

\* Levels tried below 0 and above 1 in direct calls of the audio engine, in
\* steps of 0.05.
LevelOver == 2

\* Units of a drive scalar per 1.0; every constant of the logic loop
\* (0.005, 0.1, 0.2, 0.3, 0.5, 0.8, 1) is a whole number of units.
Scale == 200 * Resolution

\* n / d rounded to the nearest integer (d > 0), halves upward.
RoundDiv(n, d) == (2 * n + d) \div (2 * d)

Abs(n) == IF n < 0 THEN -n ELSE n

---------------------------------------------------------------------------
(* types.ts *)

AppStates == {"DISCONNECTED", "AWAKENING", "RESONANT"}

GestureTypes == {"NONE", "CLOSED_FIST", "OPEN_PALM", "POINTING", "PINCH"}

---------------------------------------------------------------------------
(* GestureHandler: recognizeGesture, Visuals.tsx:786-838 *)

\* The landmarks the program reads: wrist 0, thumb tip 4, index PIP/tip 6/8,
\* middle MCP 9, middle PIP/tip 10/12, ring 14/16, pinky 18/20.
LmIdx == {0, 4, 6, 8, 9, 10, 12, 14, 16, 18, 20}

\* The square of dist(p1, p2); a point is [x, y, z].  Math.sqrt is strictly
\* increasing on the grid's squares, so the program's comparisons of
\* distances are comparisons of these squares.
distSq(p1, p2) ==
    (p1.x - p2.x) * (p1.x - p2.x) + (p1.y - p2.y) * (p1.y - p2.y)
        + (p1.z - p2.z) * (p1.z - p2.z)

\* isCurled with <= for <: a tip as far from the wrist as the PIP counts.
isCurledLoose(lm, tipIdx, pipIdx) ==
    distSq(lm[tipIdx], lm[0]) <= distSq(lm[pipIdx], lm[0])

\* The finger is curled when its tip is closer to the wrist than its PIP.
isCurled(lm, tipIdx, pipIdx) ==
    distSq(lm[tipIdx], lm[0]) < distSq(lm[pipIdx], lm[0])

indexCurled(lm) == isCurled(lm, 8, 6)
middleCurled(lm) == isCurled(lm, 12, 10)
ringCurled(lm) == isCurled(lm, 16, 14)
pinkyCurled(lm) == isCurled(lm, 20, 18)

\* curledCount with the pinky left out of the list.
curledCountNoPinky(lm) ==
    (IF indexCurled(lm) THEN 1 ELSE 0) + (IF middleCurled(lm) THEN 1 ELSE 0)
        + (IF ringCurled(lm) THEN 1 ELSE 0)

curledCount(lm) ==
    (IF indexCurled(lm) THEN 1 ELSE 0) + (IF middleCurled(lm) THEN 1 ELSE 0)
        + (IF ringCurled(lm) THEN 1 ELSE 0) + (IF pinkyCurled(lm) THEN 1 ELSE 0)

\* pinchClose measured in the image plane, z dropped.
pinchCloseFlat(lm) ==
    (lm[4].x - lm[8].x) * (lm[4].x - lm[8].x)
        + (lm[4].y - lm[8].y) * (lm[4].y - lm[8].y) < 8 * 8

\* pinchGap < 0.08, with both sides squared: 0.08 is 8 landmark units.
pinchClose(lm) == distSq(lm[4], lm[8]) < 8 * 8

\* recognizeGesture with the negation of indexCurled lost in the POINTING test.
recognizeGestureIndexSlip(lm) ==
    IF curledCount(lm) = 4 THEN "CLOSED_FIST"
    ELSE IF pinchClose(lm) THEN "PINCH"
    ELSE IF indexCurled(lm) /\ middleCurled(lm) /\ ringCurled(lm)
                /\ pinkyCurled(lm) THEN "POINTING"
    ELSE IF curledCount(lm) = 0 THEN "OPEN_PALM"
    ELSE "NONE"

recognizeGesture(lm) ==
    IF curledCount(lm) = 4 THEN "CLOSED_FIST"
    ELSE IF pinchClose(lm) THEN "PINCH"
    ELSE IF ~indexCurled(lm) /\ middleCurled(lm) /\ ringCurled(lm)
                /\ pinkyCurled(lm) THEN "POINTING"
    ELSE IF curledCount(lm) = 0 THEN "OPEN_PALM"
    ELSE "NONE"

\* palmCentre taken at the wrist alone.
palmCentreWrist(lm) ==
    [x |-> 2 * lm[0].x, y |-> 2 * lm[0].y, z |-> 2 * lm[0].z]

\* The palm centre predictWebcam reports, in handPos units (1/200): the mean
\* of wrist and middle MCP in x and y, the wrist's z.
palmCentre(lm) ==
    [x |-> lm[0].x + lm[9].x, y |-> lm[0].y + lm[9].y, z |-> 2 * lm[0].z]

---------------------------------------------------------------------------
(* The detector's outputs considered: an upright hand, wrist at (0.5, 0.6), *)
(* middle MCP at (0.5, 0.4), the four PIP joints in a row above it.  Each   *)
(* fingertip sits on the vertical through its PIP joint, 0.1 * t above it   *)
(* (t > 0, extended), on it (t = 0, as far from the wrist as the PIP) or    *)
(* below it (t < 0, curled).                                                *)

Pt(px, py, pz) == [x |-> px, y |-> py, z |-> pz]

Wrist == Pt(50, 60, 0)
MiddleMcp == Pt(50, 40, 0)
PipOf == [i \in {6, 10, 14, 18} |->
            CASE i = 6 -> Pt(44, 30, 0) [] i = 10 -> Pt(50, 28, 0)
              [] i = 14 -> Pt(56, 30, 0) [] i = 18 -> Pt(62, 34, 0)]

TipOffsets == (-TipSpread) .. TipSpread

TipAt(pipIdx, t) == Pt(PipOf[pipIdx].x, PipOf[pipIdx].y - 10 * t, 0)

\* Thumb tips: 8 below the extended index tip (gap exactly 0.08), 7 below it
\* (gap 0.07), beside it but 0.07 nearer the camera (gap 0.0806 in 3D, 0.04
\* in the image plane), on the index PIP, beside the curled index tip, and
\* far from every index tip.
ThumbTips ==
    { Pt(44, 28, 0), Pt(44, 27, 0), Pt(40, 20, 7), Pt(44, 30, 0),
      Pt(46, 42, 0), Pt(30, 45, 0) }

MkHand(thumb, ti, tm, tr, tp) ==
    [i \in LmIdx |->
        CASE i = 0 -> Wrist
          [] i = 4 -> thumb
          [] i = 9 -> MiddleMcp
          [] i \in {6, 10, 14, 18} -> PipOf[i]
          [] i = 8 -> TipAt(6, ti)
          [] i = 12 -> TipAt(10, tm)
          [] i = 16 -> TipAt(14, tr)
          [] i = 20 -> TipAt(18, tp)]

\* results.landmarks[0] of a frame with a hand.
AllHands ==
    { MkHand(th, ti, tm, tr, tp) :
        th \in ThumbTips, ti \in TipOffsets, tm \in TipOffsets,
        tr \in TipOffsets, tp \in TipOffsets }

\* One hand per label: fist, pinch, pointing, open palm, two fingers curled.
FarThumb == Pt(30, 45, 0)
RepHands ==
    { MkHand(FarThumb, -1, -1, -1, -1), MkHand(Pt(44, 27, 0), 1, 1, 1, 1),
      MkHand(FarThumb, 1, -1, -1, -1), MkHand(FarThumb, 1, 1, 1, 1),
      MkHand(FarThumb, 1, 1, -1, -1) }

\* results.landmarks of a frame without a hand, and the list handed on.
NoHand == <<>>

\* The hand lm seen (dx, dy) further right and down in the frame.
Moved(lm, dx, dy) ==
    [i \in LmIdx |-> Pt(lm[i].x + dx, lm[i].y + dy, lm[i].z)]

\* The open hand with its palm centre at each position tried.
PalmShifts == { (100 \div PalmSteps) * k - 50 : k \in 0 .. PalmSteps }
MovedHands ==
    { Moved(MkHand(FarThumb, 1, 1, 1, 1), dx, dy) :
        dx \in PalmShifts, dy \in {-50, 50} }

---------------------------------------------------------------------------
(* AudioEngine, audioService.ts.  The engine is the record                 *)
(*   ctx         TRUE once init has created the AudioContext               *)
(*   isMuted                                                               *)
(*   masterGain  the master gain, in 1/10                                  *)
(*   level       the clamped level of the last setResonance that was not   *)
(*               a no-op, in 1/Scale (-1 before the first)                 *)
(*   tideGain    the tide gain target, in 1/(100 * Scale)                  *)
(*   tideFreq    the tide filter cutoff target, in Hz / Scale              *)
(*   chakraGains the seven chakra gain targets, in 1/1000                  *)

NoChakras == <<>>

\* The chakra table has seven rows (CHAKRA_DATA).
ChakraLayers == 1 .. 7

\* contexts, drones, tideNodes and chakraOscs count the audio contexts, drone
\* oscillators, tide sources and chakra oscillators created so far.
AudioInit ==
    [ctx |-> FALSE, isMuted |-> FALSE, masterGain |-> 0, level |-> -1,
     tideGain |-> 0, tideFreq |-> 0, chakraGains |-> NoChakras,
     contexts |-> 0, drones |-> 0, tideNodes |-> 0, chakraOscs |-> 0]

\* What init() builds on the engine a: a context, the master gain at 0.8,
\* setupDrone, setupTides, and setupChakras pushing one oscillator and one
\* silent gain per row of the chakra table.
build(a) ==
    [a EXCEPT !.ctx = TRUE, !.contexts = @ + 1, !.masterGain = 8,
              !.drones = @ + 1,
              !.tideNodes = @ + 1,
              !.tideGain = 15 * Scale, !.tideFreq = 300 * Scale,
              !.chakraOscs = @ + Cardinality(ChakraLayers),
              !.chakraGains = @ \o [i \in ChakraLayers |-> 0]]

\* init guarded only from the second context on.
initTwice(a) == IF a.contexts >= 2 THEN a ELSE build(a)

\* init(): a no-op once the context exists; otherwise the context, the
\* master gain at 0.8, the drone, the tide (gain 0.15, cutoff 300 Hz) and
\* the seven silent chakra layers.
init(a) == IF a.ctx THEN a ELSE build(a)

\* clamp01 left out.
clampNone(level) == level

clamp01(level) == IF level < 0 THEN 0 ELSE IF level > Scale THEN Scale ELSE level

\* chakraTarget without the floor at 0.05.
chakraTargetNoFloor(i, clampedLevel) ==
    IF i * Scale <= clampedLevel * 7 THEN 12 * (10 - i) ELSE 0

\* The gain target of chakra layer i (0-based) at the clamped level.
chakraTarget(i, clampedLevel) ==
    IF i * Scale <= clampedLevel * 7 /\ clampedLevel * 20 > Scale
    THEN 12 * (10 - i)
    ELSE 0

\* setResonance without the test of isMuted.
setResonanceIgnoresMute(a, level) ==
    IF ~a.ctx THEN a
    ELSE LET clampedLevel == clamp01(level)
         IN  [a EXCEPT !.level = clampedLevel,
                       !.tideGain = 15 * Scale + clampedLevel * 45,
                       !.tideFreq = 300 * Scale + clampedLevel * 1200,
                       !.chakraGains =
                           [i \in 1..Len(a.chakraGains) |->
                               chakraTarget(i - 1, clampedLevel)]]

setResonance(a, level) ==
    IF ~a.ctx \/ a.isMuted THEN a
    ELSE LET clampedLevel == clamp01(level)
         IN  [a EXCEPT !.level = clampedLevel,
                       !.tideGain = 15 * Scale + clampedLevel * 45,
                       !.tideFreq = 300 * Scale + clampedLevel * 1200,
                       !.chakraGains =
                           [i \in 1..Len(a.chakraGains) |->
                               chakraTarget(i - 1, clampedLevel)]]

\* triggerTone(index): the chakra gain is set to 0.2 and ramped to 0.001,
\* which is where it comes to rest; nothing without a context or a layer.
triggerTone(a, index) ==
    IF ~a.ctx \/ index + 1 \notin DOMAIN a.chakraGains THEN a
    ELSE [a EXCEPT !.chakraGains[index + 1] = 1]

\* toggleMute(): the flag flips; the master gain follows it when it exists.
toggleMute(a) ==
    [a EXCEPT !.isMuted = ~a.isMuted,
              !.masterGain = IF a.ctx THEN (IF ~a.isMuted THEN 0 ELSE 8) ELSE @]

---------------------------------------------------------------------------
(* GestureHandler, Visuals.tsx:709-783.  The instance is the record        *)
(*   init       where initMediaPipe stands: "idle", "vision" (awaiting     *)
(*              FilesetResolver), "model" (awaiting createFromOptions),    *)
(*              "ready", or "failed" (the catch)                           *)
(*   landmarker landmarkerRef.current is set                               *)
(*   cam        where startCamera stands: "idle", "asking" (awaiting       *)
(*              getUserMedia), "streaming" (srcObject set, the loadeddata  *)
(*              listener added), "failed" (the catch), "skipped" (no       *)
(*              video element)                                             *)
(*   tracks     the camera stream's tracks: "none", "live", "stopped"      *)
(*   srcObject  the video element has the stream                           *)
(*   loaded     loadeddata has fired                                       *)
(*   playing    video.currentTime > 0                                      *)
(*   pending    the animation frames requested for predictWebcam and not   *)
(*              yet run or cancelled                                       *)
(*   requestRef requestRef.current is not null (it holds the last request) *)
(*   mounted    the component is mounted, videoRef.current is the element  *)
(*   cleaned    the effect's cleanup has run                               *)
(* videoEnabled is the app's cameraEnabled.                                *)

GhInit ==
    [init |-> "idle", landmarker |-> FALSE, cam |-> "idle", tracks |-> "none",
     srcObject |-> FALSE, loaded |-> FALSE, playing |-> FALSE, pending |-> 0,
     requestRef |-> FALSE, mounted |-> TRUE, cleaned |-> FALSE]

\* The effect body run when videoEnabled turns true: initMediaPipe() starts
\* and waits for FilesetResolver.forVisionTasks.
initMediaPipe(g) == [g EXCEPT !.init = "vision"]

\* startCamera() up to its await: nothing without a video element.
startCamera(g) ==
    IF g.mounted THEN [g EXCEPT !.cam = "asking"] ELSE [g EXCEPT !.cam = "skipped"]

\* requestRef.current = requestAnimationFrame(predictWebcam).
requestFrame(g) == [g EXCEPT !.pending = @ + 1, !.requestRef = TRUE]

\* The effect's cleanup; refSeen tells whether videoRef.current still is the
\* element when it runs.  It stops the tracks of the stream the element
\* holds and cancels the request requestRef holds.
cleanup(g, refSeen) ==
    [g EXCEPT !.tracks = IF refSeen /\ g.srcObject /\ g.tracks = "live"
                         THEN "stopped" ELSE @,
              !.pending = IF g.requestRef THEN 0 ELSE @,
              !.cleaned = TRUE]

---------------------------------------------------------------------------
(* App, src/unnamed/part_001 *)

Init ==
    /\ appState = "DISCONNECTED"
    /\ currentGesture = "NONE"
    /\ handPos = [x |-> 100, y |-> 100]
    /\ landmarks = NoHand
    /\ resonance = 0
    /\ awakenProgress = 0
    /\ cameraEnabled = FALSE
    /\ showIntro = TRUE
    /\ tideLevel = Scale \div 2
    /\ audio = AudioInit
    /\ gh = GhInit

\* The values (Math.sin(now / 4000) + 1) / 2 is sampled at: trough and crest.
TideSamples == {0, Scale}

\* The awakening step 0.005 and the full progress 1.
AwakenStep == Scale \div 200

\* awakenUpdater without the call of setAppState.
awakenUpdaterNoTransition(prev) ==
    LET next == prev + AwakenStep
    IN  IF next >= Scale THEN [progress |-> Scale, resonant |-> FALSE]
        ELSE [progress |-> next, resonant |-> FALSE]

\* awakenUpdater with > for >=.
awakenUpdaterStrict(prev) ==
    LET next == prev + AwakenStep
    IN  IF next > Scale THEN [progress |-> Scale, resonant |-> TRUE]
        ELSE [progress |-> next, resonant |-> FALSE]

\* The updater of setAwakenProgress: the next progress, and whether the
\* updater calls setAppState(RESONANT).
awakenUpdater(prev) ==
    LET next == prev + AwakenStep
    IN  IF next >= Scale THEN [progress |-> Scale, resonant |-> TRUE]
        ELSE [progress |-> next, resonant |-> FALSE]

\* targetResonance with the base target 0 in place of 0.2.
targetResonanceBaseZero(g) ==
    CASE g = "OPEN_PALM" -> (8 * Scale) \div 10
      [] g = "PINCH" -> (5 * Scale) \div 10
      [] g = "CLOSED_FIST" -> (1 * Scale) \div 10
      [] g = "POINTING" -> (3 * Scale) \div 10
      [] OTHER -> 0

\* targetResonance without the POINTING line.
targetResonanceNoPointing(g) ==
    CASE g = "OPEN_PALM" -> (8 * Scale) \div 10
      [] g = "PINCH" -> (5 * Scale) \div 10
      [] g = "CLOSED_FIST" -> (1 * Scale) \div 10
      [] OTHER -> (2 * Scale) \div 10

\* The target the loop picks for the gesture (the later assignment wins;
\* a gesture has one label, so at most one assignment runs).
targetResonance(g) ==
    CASE g = "OPEN_PALM" -> (8 * Scale) \div 10
      [] g = "PINCH" -> (5 * Scale) \div 10
      [] g = "CLOSED_FIST" -> (1 * Scale) \div 10
      [] g = "POINTING" -> (3 * Scale) \div 10
      [] OTHER -> (2 * Scale) \div 10

\* resonanceUpdater with the factor 0.5.
resonanceUpdaterHalf(prev, target) == prev + RoundDiv((target - prev) * 5, 10)

\* resonanceUpdater with the difference taken the wrong way round.
resonanceUpdaterAway(prev, target) == prev + RoundDiv((prev - target) * 5, 100)

\* The updater of setResonance: prev + (target - prev) * 0.05.
resonanceUpdater(prev, target) == prev + RoundDiv((target - prev) * 5, 100)

\* syncLevel without the switch on appState.
syncLevelResonanceOnly == resonance

\* The level of the "Sync Audio" line, read from the rendered state.
syncLevel == IF appState = "RESONANT" THEN resonance ELSE awakenProgress

\* loop with the resonance blend run in every state but DISCONNECTED.
loopBlendsEarly(tide) ==
    /\ tideLevel' = tide
    /\ IF appState = "AWAKENING"
       THEN /\ awakenProgress' = awakenUpdater(awakenProgress).progress
            /\ appState' = IF awakenUpdater(awakenProgress).resonant
                           THEN "RESONANT" ELSE appState
       ELSE UNCHANGED <<awakenProgress, appState>>
    /\ IF appState # "DISCONNECTED"
       THEN resonance' =
                resonanceUpdater(resonance, targetResonance(currentGesture))
       ELSE UNCHANGED resonance
    /\ audio' = setResonance(audio, syncLevel)
    /\ UNCHANGED <<currentGesture, handPos, landmarks, cameraEnabled, showIntro,
                   gh>>

\* One run of loop() and the render that commits its updates.
loop(tide) ==
    /\ tideLevel' = tide
    /\ IF appState = "AWAKENING"
       THEN /\ awakenProgress' = awakenUpdater(awakenProgress).progress
            /\ appState' = IF awakenUpdater(awakenProgress).resonant
                           THEN "RESONANT" ELSE appState
       ELSE UNCHANGED <<awakenProgress, appState>>
    /\ IF appState = "RESONANT"
       THEN resonance' =
                resonanceUpdater(resonance, targetResonance(currentGesture))
       ELSE UNCHANGED resonance
    /\ audio' = setResonance(audio, syncLevel)
    /\ UNCHANGED <<currentGesture, handPos, landmarks, cameraEnabled, showIntro,
                   gh>>

LoopTick == \E tide \in TideSamples : loop(tide)

\* startExperience reachable after the intro has gone.
startExperienceAnytime ==
    /\ cameraEnabled' = TRUE
    /\ appState' = "AWAKENING"
    /\ showIntro' = FALSE
    /\ audio' = init(audio)
    /\ gh' = initMediaPipe(gh)
    /\ UNCHANGED <<currentGesture, handPos, landmarks, resonance,
                   awakenProgress, tideLevel>>

\* The "Initiate Link" button exists while showIntro holds.  The render that
\* follows hands videoEnabled = true to GestureHandler, whose effect runs.
startExperience ==
    /\ showIntro
    /\ cameraEnabled' = TRUE
    /\ appState' = "AWAKENING"
    /\ showIntro' = FALSE
    /\ audio' = init(audio)
    /\ gh' = initMediaPipe(gh)
    /\ UNCHANGED <<currentGesture, handPos, landmarks, resonance,
                   awakenProgress, tideLevel>>

\* The props the render hands to Visuals (moonPhase and season never change).
visualsProps ==
    [appState |-> appState, gesture |-> currentGesture, resonance |-> resonance,
     moonPhase |-> "WAXING", season |-> "SUMMER", tideLevel |-> tideLevel,
     handPos |-> handPos, landmarks |-> landmarks]

\* mode without the test of appState.
modeAnyState(state, gesture) ==
    IF gesture = "CLOSED_FIST" THEN 2
    ELSE IF gesture = "OPEN_PALM" THEN 3
    ELSE 1

\* The mode MainParticleSystem computes on each frame from its props:
\* 1 Tree, 2 Singularity, 3 Expansion.
mode(state, gesture) ==
    IF state = "RESONANT"
    THEN IF gesture = "CLOSED_FIST" THEN 2
         ELSE IF gesture = "OPEN_PALM" THEN 3
         ELSE 1
    ELSE 1

\* A click or touch anywhere: resume(), and init() unless DISCONNECTED.
handleFirstInteraction ==
    /\ audio' = IF appState # "DISCONNECTED" THEN init(audio) ELSE audio
    /\ UNCHANGED <<appState, currentGesture, handPos, landmarks, resonance,
                   awakenProgress, cameraEnabled, showIntro, tideLevel, gh>>

\* One axis of the hand-position smoother: prev + (pos - prev) * 0.2.
\* smoothAxis with the factor 1.2.
smoothAxisOver(prev, pos) == prev + RoundDiv((pos - prev) * 12, 10)

smoothAxis(prev, pos) == prev + RoundDiv((pos - prev) * 2, 10)

handleGestureChange(gesture, pos, landmarksData) ==
    /\ currentGesture' = gesture
    /\ handPos' = [x |-> smoothAxis(handPos.x, pos.x),
                   y |-> smoothAxis(handPos.y, pos.y)]
    /\ landmarks' = landmarksData
    /\ UNCHANGED <<appState, resonance, awakenProgress, cameraEnabled,
                   showIntro, tideLevel, audio>>

---------------------------------------------------------------------------
(* GestureHandler: the asynchronous start and the sampler *)

appVars == <<appState, currentGesture, handPos, landmarks, resonance,
             awakenProgress, cameraEnabled, showIntro, tideLevel, audio>>

\* FilesetResolver.forVisionTasks resolves.
visionResolved ==
    /\ gh.init = "vision"
    /\ gh' = [gh EXCEPT !.init = "model"]
    /\ UNCHANGED appVars

\* HandLandmarker.createFromOptions resolves: the landmarker is stored and
\* startCamera() is called.
landmarkerCreated ==
    /\ gh.init = "model"
    /\ gh' = startCamera([gh EXCEPT !.init = "ready", !.landmarker = TRUE])
    /\ UNCHANGED appVars

\* Either await of initMediaPipe rejects: the catch logs, nothing else runs.
loadFailed ==
    /\ gh.init \in {"vision", "model"}
    /\ gh' = [gh EXCEPT !.init = "failed"]
    /\ UNCHANGED appVars

\* getUserMedia resolves with a live stream.  Without a video element the
\* assignment of srcObject throws into the catch, the stream stays live.
cameraGranted ==
    /\ gh.cam = "asking"
    /\ gh' = IF gh.mounted
             THEN [gh EXCEPT !.tracks = "live", !.srcObject = TRUE,
                             !.cam = "streaming"]
             ELSE [gh EXCEPT !.tracks = "live", !.cam = "threw"]
    /\ UNCHANGED appVars

\* getUserMedia rejects: the catch warns.
cameraDenied ==
    /\ gh.cam = "asking"
    /\ gh' = [gh EXCEPT !.cam = "denied"]
    /\ UNCHANGED appVars

\* The video (autoPlay) starts to play: currentTime > 0 from now on.
videoPlays ==
    /\ gh.srcObject /\ gh.tracks = "live" /\ ~gh.playing
    /\ gh' = [gh EXCEPT !.playing = TRUE]
    /\ UNCHANGED appVars

\* What runs predictWebcam: the loadeddata event of the video, once, or an
\* animation frame it requested.
Triggers == {"loadeddata", "frame"}

triggered(g, src) ==
    IF src = "loadeddata"
    THEN g.cam = "streaming" /\ ~g.loaded /\ g.tracks = "live"
    ELSE g.pending > 0

consume(g, src) ==
    IF src = "loadeddata" THEN [g EXCEPT !.loaded = TRUE]
    ELSE [g EXCEPT !.pending = @ - 1]

\* The first line of predictWebcam lets it run.
attached(g) == g.landmarker /\ g.mounted

\* One run of predictWebcam with currentTime > 0 on which the detector
\* returns `result` (a landmark list, or NoHand), with the callback into the
\* app and the render that follows.
predictWebcam(result) ==
    \E src \in Triggers :
        /\ triggered(gh, src)
        /\ attached(gh)
        /\ gh.playing
        /\ IF result # NoHand
           THEN handleGestureChange(recognizeGesture(result),
                                    palmCentre(result), result)
           ELSE handleGestureChange("NONE", [x |-> 0, y |-> 0, z |-> 0], NoHand)
        /\ gh' = requestFrame(consume(gh, src))

\* One run of predictWebcam while currentTime is still 0: no detection, the
\* next frame is requested.
predictWebcamEarly ==
    \E src \in Triggers :
        /\ triggered(gh, src)
        /\ attached(gh)
        /\ ~gh.playing
        /\ gh' = requestFrame(consume(gh, src))
        /\ UNCHANGED appVars

\* One run of predictWebcam that returns at its first line.
predictWebcamDetached ==
    \E src \in Triggers :
        /\ triggered(gh, src)
        /\ ~attached(gh)
        /\ gh' = consume(gh, src)
        /\ UNCHANGED appVars

\* The steps of the handler that need no hand.
HandlerStep ==
    \/ visionResolved
    \/ landmarkerCreated
    \/ loadFailed
    \/ cameraGranted
    \/ cameraDenied
    \/ videoPlays
    \/ predictWebcamEarly

---------------------------------------------------------------------------
(* Specifications *)

\* A frame of the whole app.  The loop reads the gesture label alone, and
\* RepHands yields each of the five labels, so the hand stays in view here:
\* the frames without a hand, which only add hand positions, are SensorSpec's
\* and HandlerSpec's.
SensorFrame == \E result \in RepHands : predictWebcam(result)

\* The app: GestureHandler stays mounted and cameraEnabled is never reset.
Next ==
    \/ startExperience
    \/ LoopTick
    \/ HandlerStep
    \/ SensorFrame
    \/ handleFirstInteraction

Spec == Init /\ [][Next]_vars

\* The browser keeps giving the logic loop frames (requestAnimationFrame,
\* part_001:84, and the effect's own call, part_001:87).
FairSpec == Spec /\ WF_vars(LoopTick)

\* The sensor on its own: a hand held still in front of the camera.  The
\* detector reports no hand, or the landmark list it reported on the frame
\* before; any hand of AllHands may appear after frames without one.
StillFrame ==
    \E result \in (IF landmarks = NoHand THEN AllHands \cup {NoHand}
                   ELSE {landmarks}) :
        predictWebcam(result)

NextSensor ==
    \/ startExperience
    \/ HandlerStep
    \/ StillFrame

SensorSpec == Init /\ [][NextSensor]_vars

\* The parent turns videoEnabled off: the effect's cleanup runs, the video
\* element stays.
disableVideo ==
    /\ cameraEnabled /\ gh.mounted
    /\ cameraEnabled' = FALSE
    /\ gh' = cleanup(gh, TRUE)
    /\ UNCHANGED <<appState, currentGesture, handPos, landmarks, resonance,
                   awakenProgress, showIntro, tideLevel, audio>>

\* The component unmounts while its effect is live: the cleanup runs, and
\* whether React has detached videoRef by then depends on its version.
unmount ==
    /\ cameraEnabled /\ gh.mounted
    /\ \E refSeen \in BOOLEAN :
          gh' = [cleanup(gh, refSeen) EXCEPT !.mounted = FALSE]
    /\ UNCHANGED appVars

\* A frame with any of the representative hands, or none.
HandlerFrame == \E result \in RepHands \cup {NoHand} : predictWebcam(result)

\* GestureHandler under a parent that may turn it off or drop it.
NextHandler ==
    \/ startExperience
    \/ HandlerStep
    \/ HandlerFrame
    \/ predictWebcamDetached
    \/ disableVideo
    \/ unmount

HandlerSpec == Init /\ [][NextHandler]_vars

\* The sampler following an open hand that moves over the whole frame and
\* leaves it.
MovingFrame == \E result \in MovedHands \cup {NoHand} : predictWebcam(result)

NextMoving ==
    \/ startExperience
    \/ HandlerStep
    \/ MovingFrame

MovingSpec == Init /\ [][NextMoving]_vars

\* The audio engine called directly, in any order: the levels are the
\* multiples of 0.05 from below 0 to above 1, the indices 0..6 and one
\* beyond the seven layers.
AudioLevels == { k * (Scale \div 20) : k \in (-LevelOver) .. (20 + LevelOver) }

ToneIndices == 0 .. 7

notAudio == <<appState, currentGesture, handPos, landmarks, resonance,
              awakenProgress, cameraEnabled, showIntro, tideLevel, gh>>

engineInit == audio' = init(audio) /\ UNCHANGED notAudio

engineToggleMute == audio' = toggleMute(audio) /\ UNCHANGED notAudio

engineSetResonance(level) ==
    audio' = setResonance(audio, level) /\ UNCHANGED notAudio

engineTriggerTone(index) ==
    audio' = triggerTone(audio, index) /\ UNCHANGED notAudio

NextAudio ==
    \/ engineInit
    \/ engineToggleMute
    \/ \E level \in AudioLevels : engineSetResonance(level)
    \/ \E index \in ToneIndices : engineTriggerTone(index)

AudioSpec == Init /\ [][NextAudio]_vars


---------------------------------------------------------------------------
(* The state machine: disconnected -> awakening -> resonant *)

\* C1: appState starts as DISCONNECTED, and every change of appState is
\* DISCONNECTED -> AWAKENING made by startExperience or AWAKENING -> RESONANT
\* made by a logic-loop tick: AWAKENING is never skipped and RESONANT is
\* never left.
C1_StateMachine ==
    /\ appState = "DISCONNECTED"
    /\ [][appState' # appState =>
            \/ /\ appState = "DISCONNECTED"
               /\ appState' = "AWAKENING"
               /\ startExperience
            \/ /\ appState = "AWAKENING"
               /\ appState' = "RESONANT"
               /\ LoopTick]_vars

\* Both transitions have been taken.
C1_Witness == appState = "RESONANT" /\ ~showIntro

\* C2: once startExperience has run, appState eventually becomes RESONANT
\* when the logic loop keeps ticking, whatever the sensor reports.
C2_EventuallyResonant == (appState # "DISCONNECTED") ~> (appState = "RESONANT")

\* RESONANT, reached while gestures arrived during the awakening.
C2_Witness ==
    appState = "RESONANT" /\ resonance = 0 /\ currentGesture = "POINTING"

\* C3: awakenProgress starts at 0, changes only on ticks taken while
\* AWAKENING, by 0.005 capped at 1; the tick requests RESONANT exactly when
\* awakenProgress + 0.005 >= 1; RESONANT implies awakenProgress = 1, and
\* awakenProgress stays within [0, 1].
C3_AwakenProgress ==
    /\ awakenProgress = 0
    /\ [](/\ 0 <= awakenProgress /\ awakenProgress <= Scale
          /\ appState = "RESONANT" => awakenProgress = Scale)
    /\ [][/\ awakenProgress' # awakenProgress =>
                /\ appState = "AWAKENING"
                /\ LoopTick
                /\ awakenProgress' =
                       IF 200 * awakenProgress + Scale <= 200 * Scale
                       THEN awakenProgress + Scale \div 200
                       ELSE Scale
          /\ (appState = "AWAKENING" /\ LoopTick) =>
                ((appState' = "RESONANT")
                    <=> (200 * awakenProgress + Scale >= 200 * Scale))
         ]_vars

\* The last awakening tick has run: progress is capped and the app resonant.
C3_Witness ==
    appState = "RESONANT" /\ awakenProgress = Scale /\ audio.level > 0

---------------------------------------------------------------------------
(* The smoother: gesture targets blended into resonance *)

\* The targets as the specification lists them, in 1/Scale.
SpecTarget(g) ==
    CASE g = "OPEN_PALM" -> 160 * Resolution
      [] g = "PINCH" -> 100 * Resolution
      [] g = "POINTING" -> 60 * Resolution
      [] g = "NONE" -> 40 * Resolution
      [] g = "CLOSED_FIST" -> 20 * Resolution

\* C4: on every tick taken while RESONANT, resonance becomes
\* resonance + (target - resonance) * 0.05 (to the nearest unit), the target
\* being that of the current gesture: OPEN_PALM 0.8, PINCH 0.5, POINTING 0.3,
\* NONE 0.2, CLOSED_FIST 0.1.
C4_SmootherStep ==
    [][(appState = "RESONANT" /\ LoopTick) =>
          LET gap == SpecTarget(currentGesture) - resonance
              step == resonance' - resonance
          IN  /\ 20 * step - gap <= 10
              /\ gap - 20 * step < 10]_vars

\* A tick has pulled resonance down from above the target of the gesture.
C4_Witness ==
    /\ appState = "RESONANT"
    /\ currentGesture = "CLOSED_FIST"
    /\ resonance > 100 * Resolution

\* C5: 0 <= resonance <= 0.8 in every reachable state, and a RESONANT tick
\* never moves resonance past the target of the current gesture.
C5_ResonanceRange ==
    /\ [](0 <= resonance /\ 10 * resonance <= 8 * Scale)
    /\ [][(appState = "RESONANT" /\ LoopTick) =>
            LET t == SpecTarget(currentGesture)
            IN  /\ resonance <= t => (resonance <= resonance' /\ resonance' <= t)
                /\ resonance >= t => (t <= resonance' /\ resonance' <= resonance)
         ]_vars

\* resonance has come to rest on the largest target.
C5_Witness ==
    appState = "RESONANT" /\ currentGesture = "OPEN_PALM"
        /\ 10 * resonance > 79 * (Scale \div 10)

\* resonance is within 0.01 of the target of g.
NearTarget(g) == Abs(resonance - SpecTarget(g)) <= Scale \div 100

\* The app is RESONANT and the gesture is g.
Holding(g) == appState = "RESONANT" /\ currentGesture = g

HoldingNone == Holding("NONE")
NearNone == NearTarget("NONE")
HoldingFist == Holding("CLOSED_FIST")
NearFist == NearTarget("CLOSED_FIST")
HoldingPalm == Holding("OPEN_PALM")
NearPalm == NearTarget("OPEN_PALM")
HoldingPointing == Holding("POINTING")
NearPointing == NearTarget("POINTING")
HoldingPinch == Holding("PINCH")
NearPinch == NearTarget("PINCH")

\* C6: when the app is RESONANT and the gesture stays g from some frame on,
\* resonance comes within 0.01 of the target of g, and it stays within 0.01
\* across every step that leaves the gesture at g.
C6_Converges ==
    /\ <>[]HoldingNone => <>[]NearNone
    /\ <>[]HoldingFist => <>[]NearFist
    /\ <>[]HoldingPalm => <>[]NearPalm
    /\ <>[]HoldingPointing => <>[]NearPointing
    /\ <>[]HoldingPinch => <>[]NearPinch
    /\ [][(appState = "RESONANT" /\ currentGesture' = currentGesture
                /\ NearTarget(currentGesture))
            => Abs(resonance' - SpecTarget(currentGesture)) <= Scale \div 100]_vars

\* resonance has settled near the pinch target after leaving the palm's.
C6_Witness ==
    /\ appState = "RESONANT"
    /\ currentGesture = "PINCH"
    /\ NearTarget("PINCH")
    /\ resonance > SpecTarget("PINCH")

---------------------------------------------------------------------------
(* The classifier.  The app stores the landmark list and the label of the  *)
(* same frame together, so a claim about recognizeGesture reads as a       *)
(* relation between landmarks and currentGesture in the frames with a      *)
(* hand.                                                                   *)

HandSeen == landmarks # NoHand

\* The squared distance between landmarks i and j of the stored frame.
GapSq(i, j) ==
    (landmarks[i].x - landmarks[j].x) * (landmarks[i].x - landmarks[j].x)
        + (landmarks[i].y - landmarks[j].y) * (landmarks[i].y - landmarks[j].y)
        + (landmarks[i].z - landmarks[j].z) * (landmarks[i].z - landmarks[j].z)

\* The tip is strictly closer to the wrist than the PIP joint is.
Curled(tip, pip) == GapSq(tip, 0) < GapSq(pip, 0)

Fingers == { <<8, 6>>, <<12, 10>>, <<16, 14>>, <<20, 18>> }

NumCurled == Cardinality({ f \in Fingers : Curled(f[1], f[2]) })

\* The thumb tip is less than 0.08 from the index tip, in 3D.
ThumbNearIndex == GapSq(4, 8) < 64

PointingPattern ==
    ~Curled(8, 6) /\ Curled(12, 10) /\ Curled(16, 14) /\ Curled(20, 18)

\* C7: the label is CLOSED_FIST exactly when all four fingers are curled,
\* whatever the thumb-to-index distance.
C7_ClosedFist ==
    HandSeen => (currentGesture = "CLOSED_FIST" <=> NumCurled = 4)

\* A fist whose thumb tip is within pinch range of the index tip.
C7_Witness ==
    HandSeen /\ NumCurled = 4 /\ ThumbNearIndex
        /\ currentGesture = "CLOSED_FIST"

\* C8: the label is PINCH exactly when the thumb tip is less than 0.08 from
\* the index tip and not all four fingers are curled.
C8_Pinch ==
    HandSeen => (currentGesture = "PINCH" <=> (ThumbNearIndex /\ NumCurled # 4))

\* A pinch made with the pointing pattern: PINCH wins over POINTING.
C8_Witness ==
    HandSeen /\ PointingPattern /\ ThumbNearIndex /\ currentGesture = "PINCH"

\* C9 as stated: index not curled and the other three curled give POINTING.
C9_PointingAlways == (HandSeen /\ PointingPattern) => currentGesture = "POINTING"

\* C9: index not curled, the other three curled and the thumb tip at least
\* 0.08 from the index tip give POINTING.
C9_Pointing ==
    (HandSeen /\ PointingPattern /\ ~ThumbNearIndex)
        => currentGesture = "POINTING"

\* The pointing pattern with the thumb exactly 0.08 from the index tip.
C9_Witness ==
    HandSeen /\ PointingPattern /\ GapSq(4, 8) = 64
        /\ currentGesture = "POINTING"

\* C10: the label is OPEN_PALM exactly when no finger is curled and the
\* thumb tip is at least 0.08 from the index tip; with one, two or three
\* fingers curled, outside the pointing pattern, and the thumb tip at least
\* 0.08 from the index tip, the label is NONE.
C10_OpenPalmOrNone ==
    HandSeen =>
        /\ currentGesture = "OPEN_PALM" <=> (NumCurled = 0 /\ ~ThumbNearIndex)
        /\ (NumCurled \in 1..3 /\ ~PointingPattern /\ ~ThumbNearIndex)
               => currentGesture = "NONE"

\* Three fingers curled, the index among them: neither fist nor pointing.
C10_Witness ==
    HandSeen /\ NumCurled = 3 /\ Curled(8, 6) /\ ~ThumbNearIndex
        /\ currentGesture = "NONE"

---------------------------------------------------------------------------
(* The sampler and the consumers *)

\* The step is a run of predictWebcam on a frame with currentTime > 0.
SampledFrame == \E result \in RepHands \cup {NoHand} : predictWebcam(result)

\* handPos after one callback reporting the position (px, py), in 1/200.
AfterOneCallback(px, py) ==
    [x |-> handPos.x + RoundDiv((px - handPos.x) * 2, 10),
     y |-> handPos.y + RoundDiv((py - handPos.y) * 2, 10)]

\* C11: a sampled frame with currentTime > 0 calls onGestureChange once, with
\* the classified gesture, the palm centre and the landmark list when a hand
\* is detected and with NONE, (0, 0) and the empty list when none is; it then
\* requests one next frame.
C11_OneCallbackOneFrame ==
    [][SampledFrame =>
        /\ landmarks' # NoHand =>
              /\ currentGesture' = recognizeGesture(landmarks')
              /\ handPos' = AfterOneCallback(landmarks'[0].x + landmarks'[9].x,
                                             landmarks'[0].y + landmarks'[9].y)
        /\ landmarks' = NoHand =>
              /\ currentGesture' = "NONE"
              /\ handPos' = AfterOneCallback(0, 0)
        /\ gh'.requestRef
        /\ gh'.pending = 1
        /\ gh'.pending = gh.pending + (IF gh'.loaded # gh.loaded THEN 1 ELSE 0)
    ]_vars

\* A pinch has been reported after frames without a hand; a frame is pending.
C11_Witness ==
    /\ gh.pending = 1
    /\ landmarks # NoHand
    /\ currentGesture = "PINCH"
    /\ handPos.x < 100

\* C12: on a tick the audio engine takes the resonance of the render when
\* that render's appState is RESONANT and its awakenProgress otherwise, the
\* appState and resonance being those the render hands to Visuals.
C12_OneLevelPerTick ==
    [][(LoopTick /\ audio.ctx) =>
          audio'.level = IF visualsProps.appState = "RESONANT"
                         THEN visualsProps.resonance
                         ELSE awakenProgress]_vars

\* The engine holds the resonance of the render before the last tick.
C12_Witness ==
    appState = "RESONANT" /\ 0 < audio.level /\ audio.level < resonance

\* C13 as stated: between two consecutive ticks the level handed to the
\* audio engine changes by at most 0.05.
C13_LevelContinuous ==
    [][(LoopTick /\ audio.ctx /\ audio.level >= 0) =>
          20 * Abs(audio'.level - audio.level) <= Scale]_vars

\* C14 as stated: once the cleanup has run, no camera track is live and no
\* prediction frame is scheduled.
C14_ReleasedAfterCleanup ==
    gh.cleaned => (gh.tracks # "live" /\ gh.pending = 0)

\* The detector failed to load, or the camera was refused.
SensorFailed == gh.init = "failed" \/ gh.cam = "denied"

\* C15: after a failed detector load or a refused camera the callback never
\* runs (currentGesture NONE, handPos (0.5, 0.5), no landmarks), the failure
\* is final, and under fair ticking the app becomes RESONANT with resonance
\* within 0.01 of the NONE target 0.2.
C15_Degrades ==
    /\ [](SensorFailed =>
            /\ currentGesture = "NONE"
            /\ handPos = [x |-> 100, y |-> 100]
            /\ landmarks = NoHand)
    /\ [][SensorFailed => SensorFailed']_vars
    /\ SensorFailed ~> (appState = "RESONANT" /\ NearNone)

\* The camera was refused and the app has settled at the NONE target.
C15_Witness ==
    gh.cam = "denied" /\ appState = "RESONANT" /\ NearNone /\ audio.level > 0

\* C16: resonance is 0 in every state that is not RESONANT, and no step
\* taken from such a state changes it.
C16_ResonanceWaits ==
    /\ [](appState # "RESONANT" => resonance = 0)
    /\ [][appState # "RESONANT" => resonance' = resonance]_vars

\* An open palm shown half way through the awakening.
C16_Witness ==
    /\ appState = "AWAKENING"
    /\ currentGesture = "OPEN_PALM"
    /\ awakenProgress > Scale \div 2
    /\ resonance = 0

---------------------------------------------------------------------------
(* The audio engine *)

\* The level clamped to [0, 1].
Clamped(level) == IF level < 0 THEN 0 ELSE IF level > Scale THEN Scale ELSE level

\* The step is setResonance(level) on an initialised, unmuted engine.
TakesLevel(level) ==
    audio.ctx /\ ~audio.isMuted /\ engineSetResonance(level)

SoundingAt(c) == { i \in 0..6 : chakraTarget(i, c) > 0 }

\* C18: setResonance(level) on an initialised, unmuted engine sets the gain
\* target of layer i to 0.12 * (1 - 0.1 * i) when the clamped level is above
\* 0.05 and i <= 7 * level, and to 0 otherwise; the sounding layers are a
\* prefix of the list, and a higher level never silences one.
C18_ChakraTargets ==
    /\ [][\A level \in AudioLevels :
            TakesLevel(level) =>
                \A i \in 0..6 :
                    audio'.chakraGains[i + 1] =
                        IF 20 * Clamped(level) > Scale
                              /\ i * Scale <= 7 * Clamped(level)
                        THEN 120 - 12 * i
                        ELSE 0]_vars
    /\ [](\A c \in { Clamped(l) : l \in AudioLevels } :
            /\ \A i \in SoundingAt(c) : \A j \in 0..i : j \in SoundingAt(c)
            /\ \A d \in { Clamped(l) : l \in AudioLevels } :
                  c <= d => SoundingAt(c) \subseteq SoundingAt(d))

\* At a level of about one half the first four layers sound.
C18_Witness ==
    /\ audio.ctx /\ ~audio.isMuted
    /\ Len(audio.chakraGains) = 7
    /\ audio.chakraGains[1] = 120
    /\ audio.chakraGains[4] = 84
    /\ audio.chakraGains[5] = 0

\* The targets setResonance sets.
Targets == <<audio.tideGain, audio.tideFreq, audio.chakraGains>>

\* C19 as stated: while the engine is muted the targets stay as they were.
C19_FrozenWhileMuted ==
    [][(audio.ctx /\ audio.isMuted) => Targets' = Targets]_vars

\* C19: setResonance changes nothing on an engine that is not initialised or
\* is muted; while an initialised engine is muted the tide targets stay as
\* they were, and a chakra target changes only by triggerTone.
C19_MutedNoOp ==
    [][/\ \A level \in AudioLevels :
            ((~audio.ctx \/ audio.isMuted) /\ engineSetResonance(level))
                => audio' = audio
       /\ (audio.ctx /\ audio.isMuted) =>
            /\ audio'.tideGain = audio.tideGain
            /\ audio'.tideFreq = audio.tideFreq
            /\ audio'.chakraGains # audio.chakraGains =>
                  \E index \in ToneIndices : engineTriggerTone(index)]_vars

\* Muted, with the targets of a level taken before the mute.
C19_Witness ==
    /\ audio.ctx /\ audio.isMuted
    /\ audio.level > 0
    /\ audio.tideGain = 15 * Scale + 45 * audio.level
    /\ audio.chakraGains[1] = 120

\* C20 as stated: on an initialised engine the master gain target is 0 when
\* muted and 0.8 when not.
C20_MasterFollowsMute ==
    audio.ctx => audio.masterGain = (IF audio.isMuted THEN 0 ELSE 8)

\* C21: an engine holds no node before init and, after any calls, exactly
\* one context, one drone, one tide source and seven chakra oscillator and
\* gain pairs; init on an initialised engine changes nothing.
C21_InitIdempotent ==
    /\ [](IF audio.ctx
          THEN /\ audio.contexts = 1
               /\ audio.drones = 1
               /\ audio.tideNodes = 1
               /\ audio.chakraOscs = 7
               /\ Len(audio.chakraGains) = 7
          ELSE /\ audio.contexts = 0
               /\ audio.drones = 0
               /\ audio.tideNodes = 0
               /\ audio.chakraOscs = 0
               /\ Len(audio.chakraGains) = 0)
    /\ [][(audio.ctx /\ engineInit) => audio' = audio]_vars

\* An initialised engine that has since taken a level and been muted.
C21_Witness ==
    /\ audio.ctx /\ audio.contexts = 1
    /\ audio.isMuted
    /\ audio.level > 0
    /\ Len(audio.chakraGains) = 7

---------------------------------------------------------------------------
(* The smoothed hand position *)

\* The position a callback reports with the landmark list lm, in 1/200.
Reported(lm) ==
    IF lm = NoHand THEN [x |-> 0, y |-> 0]
    ELSE [x |-> lm[0].x + lm[9].x, y |-> lm[0].y + lm[9].y]

\* to is one fifth of the way from from to pos, to the nearest 1/200.
OneFifth(from, to, pos) == Abs(5 * (to - from) - (pos - from)) <= 2

\* C22: a callback moves handPos one fifth of the way toward the reported
\* position on each axis, replaces currentGesture and landmarks by the
\* reported values and changes nothing else in the app; with reported
\* positions in [0, 1], (0, 0) for no hand included, handPos stays in [0, 1].
C22_SmoothedHand ==
    /\ [][(\E result \in MovedHands \cup {NoHand} :
                landmarks' = result /\ predictWebcam(result)) =>
            /\ OneFifth(handPos.x, handPos'.x, Reported(landmarks').x)
            /\ OneFifth(handPos.y, handPos'.y, Reported(landmarks').y)
            /\ currentGesture' = IF landmarks' = NoHand THEN "NONE"
                                 ELSE "OPEN_PALM"
            /\ UNCHANGED <<appState, resonance, awakenProgress, cameraEnabled,
                           showIntro, tideLevel, audio>>
      ]_vars
    /\ [](/\ 0 <= handPos.x /\ handPos.x <= 200
          /\ 0 <= handPos.y /\ handPos.y <= 200)

\* The hand has been followed into the upper right corner and then lost.
C22_Witness ==
    /\ landmarks = NoHand
    /\ currentGesture = "NONE"
    /\ handPos.x > 150
    /\ handPos.y < 50

---------------------------------------------------------------------------
(* The particle system *)

\* The mode of the particle system in the current render.
ModeNow == mode(visualsProps.appState, visualsProps.gesture)

\* C23: the mode is Singularity exactly for RESONANT with CLOSED_FIST,
\* Expansion exactly for RESONANT with OPEN_PALM, and Tree for every other
\* appState and gesture, in the render and for every pair of props.
C23_ParticleMode ==
    /\ ModeNow = 2 <=> (appState = "RESONANT" /\ currentGesture = "CLOSED_FIST")
    /\ ModeNow = 3 <=> (appState = "RESONANT" /\ currentGesture = "OPEN_PALM")
    /\ ModeNow = 1 <=>
          \/ appState \in {"DISCONNECTED", "AWAKENING"}
          \/ currentGesture \in {"NONE", "POINTING", "PINCH"}
    /\ \A s \in AppStates, g \in GestureTypes :
          /\ mode(s, g) = 2 <=> (s = "RESONANT" /\ g = "CLOSED_FIST")
          /\ mode(s, g) = 3 <=> (s = "RESONANT" /\ g = "OPEN_PALM")
          /\ mode(s, g) = 1 <=>
                (s # "RESONANT" \/ g \in {"NONE", "POINTING", "PINCH"})

\* A fist shown during the awakening: the particles stay a tree.
C23_Witness ==
    appState = "AWAKENING" /\ currentGesture = "CLOSED_FIST" /\ ModeNow = 1

============================================================================
